---------------------------- MODULE Spec2Model ----------------------------
(***************************************************************************)
(* Model of Site_download_tool.py: a recursive mirror of an HTTP directory *)
(* listing.  collect_all_links crawls the listing pages breadth first,     *)
(* main fans the file URLs out to a thread pool running download_file, and *)
(* collects the outcomes into results_summary.                             *)
(*                                                                         *)
(* Strings the code slices, joins or compares by prefix (URL paths, query  *)
(* strings, fragments, local paths) are sequences of one-character         *)
(* strings; a URL is the 5-tuple urlsplit returns, as a record.            *)
(***************************************************************************)
EXTENDS Naturals, Sequences, FiniteSets, TLC

\* ------------------------------------------------------------------------
\* Configuration (lines 21-28 of the source) and the bounds of the model.

RETRY == 3

\* The largest `workers` argument main is called with (the pool's size).
MaxWorkers == 2

\* How many times main is run, one after the other, on the same local tree.
MaxRuns == 2

\* ------------------------------------------------------------------------
\* Strings as sequences of characters.

StartsWith(s, p) == Len(p) <= Len(s) /\ SubSeq(s, 1, Len(p)) = p

Last(s) == s[Len(s)]

\* The recursive string functions are functions, not operators: TLC
\* evaluates a function's argument once, before the function is applied.
Str == Seq(STRING)

\* str.lstrip("/")
lstrip_slash[s \in Str] ==
    IF s # <<>> /\ Head(s) = "/" THEN lstrip_slash[Tail(s)] ELSE s

LStripSlash(s) == lstrip_slash[s]

\* str.split("/"): the segments between the slashes (never an empty list).
split_slash[s \in Str] ==
    IF \A i \in 1..Len(s) : s[i] # "/"
    THEN <<s>>
    ELSE LET k == CHOOSE i \in 1..Len(s) :
                      s[i] = "/" /\ \A j \in 1..(i - 1) : s[j] # "/"
         IN  <<SubSeq(s, 1, k - 1)>> \o split_slash[SubSeq(s, k + 1, Len(s))]

SplitSlash(s) == split_slash[s]

\* "/".join(segments)
join_slash[segs \in Seq(Str)] ==
    IF segs = <<>> THEN <<>>
    ELSE IF Len(segs) = 1 THEN segs[1]
    ELSE segs[1] \o <<"/">> \o join_slash[Tail(segs)]

JoinSlash(segs) == join_slash[segs]

\* The percent-escapes that occur in the modelled listings, with the
\* character urllib's unquote decodes each to (case-insensitive hex).
PctDecode(h1, h2) ==
    CASE h1 = "6" /\ h2 = "2" -> "b"
      [] h1 = "2" /\ h2 \in {"F", "f"} -> "/"
      [] h1 = "2" /\ h2 \in {"E", "e"} -> "."
      [] OTHER -> "?"

IsPctEscape(s) ==
    /\ Len(s) >= 3
    /\ s[1] = "%"
    /\ \/ s[2] = "6" /\ s[3] = "2"
       \/ s[2] = "2" /\ s[3] \in {"F", "f", "E", "e"}

\* urllib.parse.unquote: every %XX escape becomes its character; a "%" that
\* starts no escape stays.
unquote[s \in Str] ==
    IF s = <<>> THEN <<>>
    ELSE IF IsPctEscape(s)
         THEN <<PctDecode(s[2], s[3])>> \o unquote[SubSeq(s, 4, Len(s))]
         ELSE <<Head(s)>> \o unquote[Tail(s)]

Unquote(s) == unquote[s]

\* ------------------------------------------------------------------------
\* URLs: urlsplit's (scheme, netloc, path, query, fragment).  An href of a
\* listing page is the same record with "" for a scheme or netloc it lacks.

Url(scheme, netloc, path, query, fragment) ==
    [scheme |-> scheme, netloc |-> netloc, path |-> path,
     query |-> query, fragment |-> fragment]

Urls == [scheme : STRING, netloc : STRING, path : Str, query : Str,
         fragment : Str]

\* str.endswith("/") on the URL as a string (urlunsplit: the path, then
\* "?" and the query, then "#" and the fragment, each only when non-empty).
EndsWithSlash(u) ==
    IF u.fragment # <<>> THEN Last(u.fragment) = "/"
    ELSE IF u.query # <<>> THEN Last(u.query) = "/"
    ELSE u.path # <<>> /\ Last(u.path) = "/"

\* The dot-segment loop of urljoin: ".." pops, "." is dropped.
resolve_dots[segments \in Seq(Str), resolved \in Seq(Str)] ==
    IF segments = <<>> THEN resolved
    ELSE LET seg == Head(segments) IN
         IF seg = <<".", ".">>
         THEN resolve_dots[Tail(segments),
                           IF resolved = <<>> THEN <<>>
                           ELSE SubSeq(resolved, 1, Len(resolved) - 1)]
         ELSE IF seg = <<".">>
         THEN resolve_dots[Tail(segments), resolved]
         ELSE resolve_dots[Tail(segments), Append(resolved, seg)]

ResolveDots(segments, resolved) == resolve_dots[segments, resolved]

\* segments[1:-1] = filter(None, segments[1:-1])
DropEmptyMiddle(segments) ==
    IF Len(segments) <= 2 THEN segments
    ELSE <<segments[1]>>
         \o SelectSeq(SubSeq(segments, 2, Len(segments) - 1),
                      LAMBDA seg : seg # <<>>)
         \o <<Last(segments)>>

\* The path urljoin gives an href with a non-empty path, against bpath.
MergePath(bpath, path) ==
    LET parts      == SplitSlash(bpath)
        base_parts == IF Last(parts) # <<>>
                      THEN SubSeq(parts, 1, Len(parts) - 1) ELSE parts
        segments   == IF Head(path) = "/"
                      THEN SplitSlash(path)
                      ELSE DropEmptyMiddle(base_parts \o SplitSlash(path))
        dotted     == Last(segments) \in {<<".">>, <<".", ".">>}
        resolved   == ResolveDots(segments, <<>>)
                      \o (IF dotted THEN <<(<<>>)>> ELSE <<>>)
        joined     == JoinSlash(resolved)
    IN  IF joined = <<>> THEN <<"/">>
        ELSE IF Head(joined) # "/" THEN <<"/">> \o joined
        ELSE joined

\* urllib.parse.urljoin(base, href) for an http(s) base.
UrlJoin(base, href) ==
    LET scheme == IF href.scheme = "" THEN base.scheme ELSE href.scheme IN
    IF scheme # base.scheme THEN href
    ELSE IF href.netloc # ""
    THEN Url(scheme, href.netloc, href.path, href.query, href.fragment)
    ELSE IF href.path = <<>>
    THEN Url(scheme, base.netloc, base.path,
             IF href.query = <<>> THEN base.query ELSE href.query,
             href.fragment)
    ELSE Url(scheme, base.netloc, MergePath(base.path, href.path),
             href.query, href.fragment)

\* is_same_host_and_path without its path test.
is_same_host_only(base, candidate) ==
    ~(base.scheme # candidate.scheme \/ base.netloc # candidate.netloc)

\* is_same_host_and_path(base, candidate)
is_same_host_and_path(base, candidate) ==
    IF base.scheme # candidate.scheme \/ base.netloc # candidate.netloc
    THEN FALSE
    ELSE StartsWith(candidate.path, base.path)

\* normalize_local_path without unquote.
normalize_local_path_undecoded(base_url, file_url, local_root) ==
    LET rel0 == IF StartsWith(file_url.path, base_url.path)
                THEN SubSeq(file_url.path, Len(base_url.path) + 1,
                            Len(file_url.path))
                ELSE LStripSlash(file_url.path)
        rel  == LStripSlash(rel0)
    IN  IF local_root # <<>> /\ Last(local_root) # "/"
        THEN local_root \o <<"/">> \o rel
        ELSE local_root \o rel

\* normalize_local_path(base_url, file_url, local_root); os.path.join puts
\* one separator between a root that does not end in one and the rest.
normalize_local_path(base_url, file_url, local_root) ==
    LET rel0 == IF StartsWith(file_url.path, base_url.path)
                THEN SubSeq(file_url.path, Len(base_url.path) + 1,
                            Len(file_url.path))
                ELSE LStripSlash(file_url.path)
        rel  == LStripSlash(Unquote(rel0))
    IN  IF local_root # <<>> /\ Last(local_root) # "/"
        THEN local_root \o <<"/">> \o rel
        ELSE local_root \o rel

\* ------------------------------------------------------------------------
\* The remote site and the hrefs its listing pages may hold.

Rel(path) == Url("", "", path, <<>>, <<>>)

RootUrl == Url("http", "x", <<"/", "a", "/">>, <<>>, <<>>)
SubPath == <<"/", "a", "/", "s", "/">>
LocalRoot == <<"L">>

EmptyHref == Rel(<<>>)
ParentHref == Rel(<<".", ".", "/">>)
SlashHref == Rel(<<"/">>)

HrefB == Rel(<<"b">>)
HrefC == Rel(<<"c">>)
HrefSub == Rel(<<"s", "/">>)
HrefBPart == Rel(<<"b", ".", "p", "a", "r", "t">>)
HrefBEncoded == Rel(<<"%", "6", "2">>)
HrefBQuery1 == Url("", "", <<"b">>, <<"1">>, <<>>)
HrefBQuery2 == Url("", "", <<"b">>, <<"2">>, <<>>)
HrefBFragment == Url("", "", <<"b">>, <<>>, <<"t">>)
HrefSortLink == Url("", "", <<>>, <<"C">>, <<>>)
HrefSelf == Rel(<<".", "/">>)
HrefRootAbs == Rel(<<"/", "a", "/">>)
HrefUpFile == Rel(<<".", ".", "/", "o">>)
HrefSibling == Rel(<<"/", "a", "b">>)
HrefOtherHost == Url("http", "y", <<"/", "a", "/", "b">>, <<>>, <<>>)
HrefOtherScheme == Url("https", "x", <<"/", "a", "/", "b">>, <<>>, <<>>)

HrefUniverse ==
    {EmptyHref, ParentHref, SlashHref, HrefB, HrefC, HrefSub, HrefBPart,
     HrefBEncoded, HrefBQuery1, HrefBQuery2, HrefBFragment, HrefSortLink,
     HrefSelf, HrefRootAbs, HrefUpFile, HrefSibling, HrefOtherHost,
     HrefOtherScheme}

\* A listing page: the status its GET answers (0: the request raises) and
\* the hrefs of its anchors.
Page(status, hrefs) == [status |-> status, hrefs |-> hrefs]

NoPage == Page(404, {})

\* A remote file: what a 200 answer streams, as `size` chunks of body `id`.
Body(id, size) == [id |-> id, size |-> size]

NoBodies == [u \in {} |-> Body("", 0)]

Site(root, pages, bodies) ==
    [root |-> root, pages |-> pages, bodies |-> bodies]

SmallSubsets(S) == {T \in SUBSET S : Cardinality(T) <= 2}

\* Every site of two listing pages: the root page holds a link to the
\* sub-directory page and at most two more hrefs, the sub-directory page
\* holds at most one href or fails.
CrawlSites ==
    {Site(RootUrl,
          [p \in {RootUrl.path, SubPath} |->
              IF p = RootUrl.path THEN Page(200, top \cup {HrefSub}) ELSE sub],
          NoBodies) :
        top \in SmallSubsets(HrefUniverse),
        sub \in {Page(200, {})} \cup {Page(200, {h}) : h \in HrefUniverse}
                \cup {Page(500, {}), Page(0, {})}}

\* ------------------------------------------------------------------------
\* State.

VARIABLES
    site,             \* the remote tree (it does not change)
    workers,          \* main's argument: the size of the thread pool
    run,              \* which run of main this is
    pc,               \* where main is: "crawl", "collect", "done", "crashed"
    to_visit,         \* collect_all_links: the queue
    visited,          \* collect_all_links: the pages fetched
    file_links,       \* collect_all_links: the file URLs found
    parse_calls,      \* the URLs parse_directory_listing was called with
    tasks,            \* main: the futures, one download_file call each
    pbar,             \* the progress bar's counter
    results_summary,  \* main: the counts per outcome
    first_summary,    \* results_summary as the first run ended
    fs                \* the local file system: path -> content

vars == <<site, workers, run, pc, to_visit, visited, file_links,
          parse_calls, tasks, pbar, results_summary, first_summary, fs>>

inputs == <<site, workers>>

crawl_vars == <<to_visit, visited, file_links, parse_calls>>

\* ------------------------------------------------------------------------
\* The crawl.

\* The page the server answers a GET of url with.
PageAt(url) ==
    IF /\ url.scheme = site.root.scheme
       /\ url.netloc = site.root.netloc
       /\ url.path \in DOMAIN site.pages
    THEN site.pages[url.path]
    ELSE NoPage

\* The loop of parse_directory_listing over the anchors of a page.
KeptLinks(url, base_url, hrefs) ==
    {full \in {UrlJoin(url, href) :
                  href \in {h \in hrefs : h # EmptyHref
                                    /\ h \notin {ParentHref, SlashHref}}} :
        is_same_host_and_path(base_url, full)}

\* parse_directory_listing without its test of the status.
parse_directory_listing_any_status(url, base_url) ==
    KeptLinks(url, base_url, PageAt(url).hrefs)

\* parse_directory_listing(url, base_url)
parse_directory_listing(url, base_url) ==
    LET r == PageAt(url) IN
    IF r.status # 200 THEN {} ELSE KeptLinks(url, base_url, r.hrefs)

\* The orders a for loop may take the elements of a set in.
orders[S \in SUBSET Urls] ==
    {o \in [1..Cardinality(S) -> S] :
        \A i, j \in 1..Cardinality(S) : i # j => o[i] # o[j]}

Orders(S) == orders[S]

Range(s) == {s[i] : i \in 1..Len(s)}

\* The dequeue guard of collect_all_links: a page is fetched when it was not
\* fetched before.
ShouldFetch(cur, seen) == cur \notin seen

\* The crawl loop without visited.add(cur).
MarkVisitedForgotten(seen, cur) == seen

\* visited.add(cur)
MarkVisited(seen, cur) == seen \cup {cur}

\* The enqueue guard without its test of the queue.
ShouldEnqueueUnlessVisited(link, seen, queue) == link \notin seen

\* The enqueue guard of collect_all_links.
ShouldEnqueue(link, seen, queue) == link \notin seen /\ link \notin Range(queue)

\* One iteration of the while loop of collect_all_links.
CrawlStep ==
    /\ pc = "crawl"
    /\ to_visit # <<>>
    /\ LET cur  == Head(to_visit)
           rest == Tail(to_visit)
       IN  IF ~ShouldFetch(cur, visited)
           THEN /\ to_visit' = rest
                /\ UNCHANGED <<visited, file_links, parse_calls>>
           ELSE LET links == parse_directory_listing(cur, site.root)
                    seen  == MarkVisited(visited, cur)
                    dirs  == {l \in links : EndsWithSlash(l)
                                            /\ ShouldEnqueue(l, seen, rest)}
                IN  /\ visited' = seen
                    /\ parse_calls' = Append(parse_calls, cur)
                    /\ \E order \in Orders(dirs) : to_visit' = rest \o order
                    /\ file_links' =
                           file_links \cup {l \in links : ~EndsWithSlash(l)}
    /\ UNCHANGED <<inputs, run, pc, tasks, pbar, results_summary,
                   first_summary, fs>>

\* ------------------------------------------------------------------------
\* main up to the dispatch of the downloads.

\* A sequence holding each element of S once.  The order main submits the
\* futures in is the arbitrary order of a set; it shows only in the order
\* the pool starts them, and Start takes any queued task.
set_to_seq[S \in SUBSET Urls] ==
    IF S = {} THEN <<>>
    ELSE LET x == CHOOSE y \in S : TRUE IN <<x>> \o set_to_seq[S \ {x}]

SetToSeq(S) == set_to_seq[S]

NoResponse == [ok |-> FALSE, status |-> 0, length |-> {}]

\* The state of one download_file(url, local_path, pbar) call.
NewTask(url, local_path) ==
    [url        |-> url,
     local_path |-> local_path,
     at         |-> "queued",    \* queued, head, check, get, write, replace,
                                 \* done (returned), raised (an exception left)
     heads      |-> 0,           \* HEAD requests issued by try_head
     head       |-> NoResponse,  \* what try_head returned
     attempt    |-> 0,           \* the transfer loop's attempt
     gets       |-> 0,           \* GET requests issued
     failures   |-> 0,           \* attempts ended by a bad status or a raise
     wrote      |-> 0,           \* chunks written since open(tmp_path, "wb")
     fd         |-> {},          \* the path naming the open file, if any
     result     |-> "none",      \* the value returned
     before     |-> <<>>,        \* history: the final path as the call began
     updates    |-> 0,           \* pbar.update(1) calls made
     collected  |-> FALSE]       \* main has taken f.result()

ZeroSummary == [downloaded |-> 0, skipped |-> 0, failed |-> 0]

\* collect_all_links returns; main lines 189-199: the progress bar, the
\* summary and one submitted future per file URL.
Submit ==
    /\ pc = "crawl"
    /\ to_visit = <<>>
    /\ LET file_urls == SetToSeq(file_links) IN
       tasks' = [i \in 1..Len(file_urls) |->
                    NewTask(file_urls[i],
                            normalize_local_path(site.root, file_urls[i],
                                                 LocalRoot))]
    /\ pbar' = 0
    /\ results_summary' = ZeroSummary
    /\ pc' = "collect"
    /\ UNCHANGED <<inputs, run, crawl_vars, first_summary, fs>>

\* ------------------------------------------------------------------------
\* The local file system.  A file's content is the sequence of chunks
\* written to it; a chunk is <<body id, index>>, a hole is NoChunk.

NoFiles == [p \in {} |-> <<>>]

NoChunk == <<"", 0>>

Exists(path) == path \in DOMAIN fs

\* What is at path: <<>> when no file is, else <<its content>>.
FileAt(files, path) ==
    IF path \in DOMAIN files THEN <<files[path]>> ELSE <<>>

\* The complete body of a remote file.
Content(body) == [k \in 1..body.size |-> <<body.id, k>>]

\* open(path, "wb"): the file is created, or truncated when it exists.
Truncated(files, path) ==
    [p \in DOMAIN files \cup {path} |-> IF p = path THEN <<>> ELSE files[p]]

\* f.write(chunk) at offset `at` of the file at path.
Written(files, path, offset, chunk) ==
    LET old    == files[path]
        padded == [k \in 1..offset |->
                      IF k <= Len(old) THEN old[k] ELSE NoChunk]
        after  == IF Len(old) > offset + 1
                  THEN SubSeq(old, offset + 2, Len(old)) ELSE <<>>
    IN  [files EXCEPT ![path] = padded \o <<chunk>> \o after]

\* os.replace(src, dst), src existing.
Replaced(files, src, dst) ==
    [p \in (DOMAIN files \ {src}) \cup {dst} |->
        IF p = dst THEN files[src] ELSE files[p]]

Suffix == <<".", "p", "a", "r", "t">>

tmp_path(local_path) == local_path \o Suffix

\* ------------------------------------------------------------------------
\* download_file, one action per step that other workers can see.

TaskIds == DOMAIN tasks

Running(t) == tasks[t].at \in {"head", "check", "get", "write", "replace"}

Finished(t) == tasks[t].at \in {"done", "raised"}

\* What the server streams for a GET of url that answers 200 or 206.
BodyOf(url) ==
    IF url \in DOMAIN site.bodies THEN site.bodies[url] ELSE Body("", 0)

\* Start with a pool that runs every submitted call at once.
StartUnbounded(t) ==
    /\ pc \in {"collect", "crashed"}
    /\ tasks[t].at = "queued"
    /\ \E made \in BOOLEAN :
          tasks' = [tasks EXCEPT ![t] =
                       [@ EXCEPT !.at = IF made THEN "head" ELSE "raised",
                                 !.before = FileAt(fs, tasks[t].local_path)]]
    /\ UNCHANGED <<inputs, run, pc, crawl_vars, pbar, results_summary,
                   first_summary, fs>>

\* A worker thread of the pool takes a queued call and runs its first line,
\* ensure_dir(os.path.dirname(local_path)), which may raise (permission
\* denied, a file in the way); nothing in download_file catches that.
Start(t) ==
    /\ pc \in {"collect", "crashed"}
    /\ tasks[t].at = "queued"
    /\ Cardinality({o \in TaskIds : Running(o)}) < workers
    /\ \E made \in BOOLEAN :
          tasks' = [tasks EXCEPT ![t] =
                       [@ EXCEPT !.at = IF made THEN "head" ELSE "raised",
                                 !.before = FileAt(fs, tasks[t].local_path)]]
    /\ UNCHANGED <<inputs, run, pc, crawl_vars, pbar, results_summary,
                   first_summary, fs>>

\* The answers a HEAD of url may get that try_head returns: 200 with the
\* body's size as Content-Length, 200 without one, or another status.
HeadResponses(url) ==
    {[ok |-> TRUE, status |-> 200, length |-> {BodyOf(url).size}],
     [ok |-> TRUE, status |-> 200, length |-> {}],
     [ok |-> TRUE, status |-> 404, length |-> {BodyOf(url).size}]}

\* try_head(url): up to RETRY requests, the first answer is returned, None
\* (NoResponse) when every request raised.  <<requests issued, result>>.
try_head(url) ==
    {<<n, r>> : n \in 1..RETRY, r \in HeadResponses(url)}
    \cup {<<RETRY, NoResponse>>}

\* content_length read from an answer of any status.
content_length_any_status(head) == head.length

\* Lines 81-83: the Content-Length of a 200 answer, {} for None.
content_length(head) ==
    IF head.ok /\ head.status = 200 THEN head.length ELSE {}

\* The skip test without the comparison of the sizes.
ShouldSkipAnySize(local_path, length, files) ==
    local_path \in DOMAIN files /\ length # {}

\* Lines 85-88: the file exists and its size is the Content-Length.
ShouldSkip(local_path, length, files) ==
    /\ local_path \in DOMAIN files
    /\ length # {}
    /\ Len(files[local_path]) \in length

\* The transfer loop running one attempt too many.
HasAttemptsLeftOffByOne(n) == n <= RETRY

\* range(RETRY): whether the transfer loop has an attempt left after n.
HasAttemptsLeft(n) == n < RETRY

\* An attempt ended in a status other than 200 and 206, or in an exception
\* caught at line 118: the next attempt, or lines 121-124.
AfterFailure(task) ==
    LET n == task.attempt + 1
        next == [task EXCEPT !.attempt = n, !.failures = @ + 1,
                             !.fd = {}, !.wrote = 0]
    IN  IF HasAttemptsLeft(n)
        THEN [next EXCEPT !.at = "get"]
        ELSE [next EXCEPT !.at = "done", !.result = "failed",
                          !.updates = @ + 1]

\* Line 80: try_head.
TryHead(t) ==
    /\ tasks[t].at = "head"
    /\ \E h \in try_head(tasks[t].url) :
          tasks' = [tasks EXCEPT ![t] =
                       [@ EXCEPT !.at = "check", !.heads = h[1], !.head = h[2]]]
    /\ UNCHANGED <<inputs, run, pc, crawl_vars, pbar, results_summary,
                   first_summary, fs>>

\* Lines 81-94: the skip decision.  A call that goes on to the transfer
\* reads neither head nor content_length again; they are dropped there.
SkipCheck(t) ==
    /\ tasks[t].at = "check"
    /\ LET task == tasks[t] IN
       IF ShouldSkip(task.local_path, content_length(task.head), fs)
       THEN /\ tasks' = [tasks EXCEPT ![t] =
                            [task EXCEPT !.at = "done", !.result = "skipped",
                                         !.updates = @ + 1]]
            /\ pbar' = pbar + 1
       ELSE /\ tasks' = [tasks EXCEPT ![t] =
                            [task EXCEPT !.at = "get", !.heads = 0,
                                         !.head = NoResponse]]
            /\ pbar' = pbar
    /\ UNCHANGED <<inputs, run, pc, crawl_vars, results_summary,
                   first_summary, fs>>

\* Lines 99-104: one GET.  status 0 is a request that raises.  On 200 or 206
\* the temp file is opened for writing.
Get(t) ==
    /\ tasks[t].at = "get"
    /\ \E status \in {0, 200, 206, 503} :
          LET task == [tasks[t] EXCEPT !.gets = @ + 1] IN
          IF status \in {200, 206}
          THEN /\ tasks' = [tasks EXCEPT ![t] =
                               [task EXCEPT
                                   !.at = "write", !.wrote = 0,
                                   !.fd = {tmp_path(task.local_path)}]]
               /\ fs' = Truncated(fs, tmp_path(task.local_path))
               /\ pbar' = pbar
          ELSE /\ tasks' = [tasks EXCEPT ![t] = AfterFailure(task)]
               /\ pbar' = pbar + (IF HasAttemptsLeft(task.attempt + 1)
                                  THEN 0 ELSE 1)
               /\ fs' = fs
    /\ UNCHANGED <<inputs, run, pc, crawl_vars, results_summary,
                   first_summary>>

\* Lines 105-107: the next chunk is written where this writer's offset is,
\* or the stream (or the write) raises and the file is closed short.
\* A writer whose file was replaced away writes to no path.
Write(t) ==
    /\ tasks[t].at = "write"
    /\ LET task == tasks[t]
           body == BodyOf(task.url)
       IN  \/ /\ task.wrote < body.size
              /\ fs' = IF \E p \in task.fd : p \in DOMAIN fs
                       THEN LET p == CHOOSE q \in task.fd : TRUE IN
                            Written(fs, p, task.wrote,
                                    <<body.id, task.wrote + 1>>)
                       ELSE fs
              /\ tasks' = [tasks EXCEPT ![t] =
                              IF task.wrote + 1 = body.size
                              THEN [task EXCEPT !.wrote = @ + 1, !.fd = {},
                                                !.at = "replace"]
                              ELSE [task EXCEPT !.wrote = @ + 1]]
              /\ pbar' = pbar
           \/ /\ task.wrote < body.size
              /\ tasks' = [tasks EXCEPT ![t] = AfterFailure(task)]
              /\ pbar' = pbar + (IF HasAttemptsLeft(task.attempt + 1)
                                 THEN 0 ELSE 1)
              /\ fs' = fs
    /\ UNCHANGED <<inputs, run, pc, crawl_vars, results_summary,
                   first_summary>>

\* Line 108 and the return: os.replace(tmp_path, local_path), which raises
\* when tmp_path is gone.  Writers holding the renamed file open go on
\* writing to it under its new name.
Replace(t) ==
    /\ tasks[t].at = "replace"
    /\ LET task == tasks[t]
           src  == tmp_path(task.local_path)
           dst  == task.local_path
       IN  IF src \in DOMAIN fs
           THEN /\ fs' = Replaced(fs, src, dst)
                /\ tasks' = [o \in TaskIds |->
                      IF o = t
                      THEN [task EXCEPT !.at = "done",
                                        !.result = "downloaded",
                                        !.updates = @ + 1]
                      ELSE IF tasks[o].fd = {src}
                      THEN [tasks[o] EXCEPT !.fd = {dst}]
                      ELSE IF tasks[o].fd = {dst}
                      THEN [tasks[o] EXCEPT !.fd = {<<>>}]
                      ELSE tasks[o]]
                /\ pbar' = pbar + 1
           ELSE /\ tasks' = [tasks EXCEPT ![t] = AfterFailure(task)]
                /\ pbar' = pbar + (IF HasAttemptsLeft(task.attempt + 1)
                                   THEN 0 ELSE 1)
                /\ fs' = fs
    /\ UNCHANGED <<inputs, run, pc, crawl_vars, results_summary,
                   first_summary>>

\* ------------------------------------------------------------------------
\* main, lines 201-207.

\* Collect with a summary that has no count for "skipped".
CollectSkippedUncounted(t) ==
    /\ pc = "collect"
    /\ Finished(t)
    /\ ~tasks[t].collected
    /\ tasks' = [tasks EXCEPT ![t].collected = TRUE]
    /\ IF tasks[t].at = "raised"
       THEN pc' = "crashed" /\ UNCHANGED results_summary
       ELSE /\ pc' = pc
            /\ results_summary' =
                  IF tasks[t].result \in {"downloaded", "failed"}
                  THEN [results_summary EXCEPT ![tasks[t].result] = @ + 1]
                  ELSE results_summary
    /\ UNCHANGED <<inputs, run, crawl_vars, pbar, first_summary, fs>>

\* One iteration of the as_completed loop: f.result() returns the outcome,
\* or raises what the call raised, which nothing in main catches.
Collect(t) ==
    /\ pc = "collect"
    /\ Finished(t)
    /\ ~tasks[t].collected
    /\ tasks' = [tasks EXCEPT ![t].collected = TRUE]
    /\ IF tasks[t].at = "raised"
       THEN pc' = "crashed" /\ UNCHANGED results_summary
       ELSE /\ pc' = pc
            /\ results_summary' =
                  IF tasks[t].result \in DOMAIN results_summary
                  THEN [results_summary EXCEPT ![tasks[t].result] = @ + 1]
                  ELSE results_summary
    /\ UNCHANGED <<inputs, run, crawl_vars, pbar, first_summary, fs>>

\* Every future was collected: the pool is shut down and the summary logged.
Finish ==
    /\ pc = "collect"
    /\ \A t \in TaskIds : tasks[t].collected
    /\ pc' = "done"
    /\ first_summary' = IF run = 1 THEN results_summary ELSE first_summary
    /\ UNCHANGED <<inputs, run, crawl_vars, tasks, pbar, results_summary,
                   fs>>

\* The tool is run again on the same remote site and local tree.
Rerun ==
    /\ pc = "done"
    /\ run < MaxRuns
    /\ run' = run + 1
    /\ pc' = "crawl"
    /\ to_visit' = <<site.root>>
    /\ visited' = {}
    /\ file_links' = {}
    /\ parse_calls' = <<>>
    /\ tasks' = <<>>
    /\ pbar' = 0
    /\ results_summary' = ZeroSummary
    /\ UNCHANGED <<inputs, first_summary, fs>>

\* ------------------------------------------------------------------------
\* The sites the whole pipeline is run on.

Join(href) == UrlJoin(RootUrl, href)

OnePage(hrefs) ==
    [p \in {RootUrl.path, SubPath} |->
        IF p = RootUrl.path THEN Page(200, hrefs) ELSE Page(200, {})]

\* /a/ lists b and s/, /a/s/ lists c.
TreeSite ==
    Site(RootUrl,
         [p \in {RootUrl.path, SubPath} |->
             IF p = RootUrl.path THEN Page(200, {HrefB, HrefSub})
             ELSE Page(200, {HrefC})],
         (Join(HrefB) :> Body("b", 1))
         @@ (UrlJoin(Url("http", "x", SubPath, <<>>, <<>>), HrefC)
                :> Body("c", 2)))

\* Two links to one path that differ in the query string.
QuerySite ==
    Site(RootUrl, OnePage({HrefBQuery1, HrefBQuery2}),
         (Join(HrefBQuery1) :> Body("p", 1))
         @@ (Join(HrefBQuery2) :> Body("q", 2)))

\* A file and a file named like the other's temp file.
PartSite ==
    Site(RootUrl, OnePage({HrefB, HrefBPart}),
         (Join(HrefB) :> Body("b", 2)) @@ (Join(HrefBPart) :> Body("t", 1)))

\* Two links to one file, one of them percent-encoded.
EncodedSite ==
    Site(RootUrl, OnePage({HrefB, HrefBEncoded}),
         (Join(HrefB) :> Body("b", 2)) @@ (Join(HrefBEncoded) :> Body("b", 2)))

MirrorSites == {TreeSite, QuerySite, PartSite, EncodedSite}

\* ------------------------------------------------------------------------
\* Specifications.

Start0 ==
    /\ run = 1
    /\ pc = "crawl"
    /\ to_visit = <<site.root>>
    /\ visited = {}
    /\ file_links = {}
    /\ parse_calls = <<>>
    /\ tasks = <<>>
    /\ pbar = 0
    /\ results_summary = ZeroSummary
    /\ first_summary = ZeroSummary
    /\ fs = NoFiles

\* main is called on an empty local tree.
Init == site \in MirrorSites /\ workers \in 1..MaxWorkers /\ Start0

Next ==
    \/ CrawlStep
    \/ Submit
    \/ \E t \in TaskIds : Start(t)
    \/ \E t \in TaskIds : TryHead(t)
    \/ \E t \in TaskIds : SkipCheck(t)
    \/ \E t \in TaskIds : Get(t)
    \/ \E t \in TaskIds : Write(t)
    \/ \E t \in TaskIds : Replace(t)
    \/ \E t \in TaskIds : Collect(t)
    \/ Finish
    \/ Rerun

Spec == Init /\ [][Next]_vars

\* The crawl alone, on every small site.
InitCrawl == site \in CrawlSites /\ workers = 1 /\ Start0

NextCrawl == CrawlStep \/ Submit

SpecCrawl == InitCrawl /\ [][NextCrawl]_vars

\* The crawl loop runs on: collect_all_links is sequential code.
FairSpecCrawl == SpecCrawl /\ WF_vars(NextCrawl)

\* ------------------------------------------------------------------------
\* Properties of the crawl (SpecCrawl, FairSpecCrawl).

\* s starts with p, character by character.
HasPrefix(s, p) ==
    /\ Len(s) >= Len(p)
    /\ \A i \in 1..Len(p) : s[i] = p[i]

InsideRoot(u) ==
    /\ u.scheme = site.root.scheme
    /\ u.netloc = site.root.netloc
    /\ HasPrefix(u.path, site.root.path)

\* C1: every URL in file_links or in to_visit has the root URL's scheme and
\* host and a path that starts with the root URL's path, whatever hrefs the
\* listing pages hold.
C1_Boundary == \A u \in file_links \cup Range(to_visit) : InsideRoot(u)

\* A fetched page held an href that resolves outside the root, and files
\* were collected.
C1_Witness ==
    /\ file_links # {}
    /\ \E p \in visited :
          /\ PageAt(p).status = 200
          /\ \E h \in PageAt(p).hrefs \ {EmptyHref, ParentHref, SlashHref} :
                ~InsideRoot(UrlJoin(p, h))

\* The directory URLs reachable from the start URL through the links that
\* parse_directory_listing returns.
RECURSIVE DirClosure(_)
DirClosure(S) ==
    LET more == S \cup UNION {{l \in parse_directory_listing(d, site.root) :
                                  EndsWithSlash(l)} : d \in S}
    IN  IF more = S THEN S ELSE DirClosure(more)

ReachableDirs == DirClosure({site.root})

NoRepeatedCall ==
    \A i, j \in 1..Len(parse_calls) :
        i # j => parse_calls[i] # parse_calls[j]

\* C3: collect_all_links terminates, and parse_directory_listing is called
\* exactly once for the start URL and for each directory URL reachable from
\* it, and for no other URL, also when listings link back to themselves or
\* to an ancestor.
C3_OneVisitPerDirectory ==
    /\ <>(pc # "crawl")
    /\ [](NoRepeatedCall /\ Range(parse_calls) \subseteq ReachableDirs)
    /\ [](pc # "crawl" => Range(parse_calls) = ReachableDirs)

\* The crawl ended on a site whose sub-directory page links back to the
\* root page, after both pages were fetched.
C3_Witness ==
    /\ pc # "crawl"
    /\ Len(parse_calls) = 2
    /\ \E d \in visited \ {site.root} :
          site.root \in parse_directory_listing(d, site.root)

\* C7: normalize_local_path maps any two distinct file URLs of file_links
\* to two distinct local paths.
C7_DistinctDestinations ==
    \A u, v \in file_links :
        u # v => normalize_local_path(site.root, u, LocalRoot)
                 # normalize_local_path(site.root, v, LocalRoot)

\* ------------------------------------------------------------------------
\* Properties of the whole pipeline (Spec).

\* The content is the whole body of some remote file.
Complete(content) ==
    \E u \in DOMAIN site.bodies : content = Content(site.bodies[u])

\* C2: the final local_path of a download_file call never holds a zero-byte
\* or truncated file: it does not exist or holds the complete body of one
\* successful GET (the local tree starts empty, so that is also what it held
\* before the call).  Stated for the final paths that no other call uses as
\* its temp path.
C2_Atomic ==
    \A t \in TaskIds :
        (/\ Exists(tasks[t].local_path)
         /\ \A o \in TaskIds : tmp_path(tasks[o].local_path)
                               # tasks[t].local_path)
        => Complete(fs[tasks[t].local_path])

FirstRunClean ==
    /\ first_summary.failed = 0
    /\ first_summary.downloaded + first_summary.skipped = Len(tasks)

FullAnswer(t) ==
    [ok |-> TRUE, status |-> 200, length |-> {BodyOf(tasks[t].url).size}]

\* C4: in a second run, after a first run that downloaded every file, every
\* download_file call returns "skipped".  Stated for the calls whose HEAD
\* answered 200 with the body's size as Content-Length: each step that ends
\* the skip decision of such a call ends the call with "skipped".
C4_SecondRunSkips ==
    [][\A t \in TaskIds :
          (/\ run = 2
           /\ FirstRunClean
           /\ tasks[t].at = "check"
           /\ tasks[t].head = FullAnswer(t)
           /\ tasks'[t].at # "check")
          => tasks'[t].result = "skipped"]_vars

\* C5: every download_file call that has ended, whichever way, has called
\* pbar.update(1) exactly once, and the counter of a finished run is the
\* number of file URLs.
C5_ProgressOnce ==
    /\ \A t \in TaskIds : Finished(t) => tasks[t].updates = 1
    /\ pc = "done" => pbar = Len(tasks)

\* C6: no exception leaves download_file (a call that ended has returned
\* one of the three outcomes) and none leaves main's collection loop.
C6_Isolated ==
    /\ \A t \in TaskIds :
          Finished(t) => tasks[t].result \in DOMAIN ZeroSummary
    /\ pc # "crashed"

\* C8: no two download_file calls have the same temp path open for writing
\* at the same time.
C8_NoContention ==
    \A t, o \in TaskIds :
        (t # o /\ tasks[t].at = "write" /\ tasks[o].at = "write")
        => tmp_path(tasks[t].local_path) # tmp_path(tasks[o].local_path)

\* The condition of the skip, on the state the decision is taken in.
SkipCase(t) ==
    /\ Exists(tasks[t].local_path)
    /\ tasks[t].head.ok
    /\ tasks[t].head.status = 200
    /\ \E n \in tasks[t].head.length : Len(fs[tasks[t].local_path]) = n

\* C9: when the file exists, the HEAD answered 200 with a Content-Length and
\* the local size equals it, download_file returns "skipped", having issued
\* no GET and written no file; in every other case it does not return
\* "skipped".
C9_SkipWithoutTransfer ==
    [][\A t \in TaskIds :
          /\ (tasks[t].at = "check" /\ tasks'[t].at # "check")
             => IF SkipCase(t)
                THEN /\ tasks'[t].at = "done"
                     /\ tasks'[t].result = "skipped"
                     /\ tasks'[t].gets = 0
                     /\ fs' = fs
                ELSE /\ tasks'[t].result # "skipped"
                     /\ tasks'[t].at = "get"
          /\ (tasks[t].at # "check" /\ tasks' # <<>>)
             => (tasks'[t].result = "skipped") = (tasks[t].result = "skipped")
      ]_vars

\* A call returned "skipped" without a GET, the file being there.
C9_Witness ==
    \E t \in TaskIds :
        /\ tasks[t].result = "skipped"
        /\ tasks[t].gets = 0
        /\ SkipCase(t)

\* C10: a call that is not skipped issues at most RETRY GETs; it returns
\* "downloaded" at its first attempt that does not fail, and "failed"
\* exactly when RETRY attempts have failed.
C10_BoundedRetries ==
    \A t \in TaskIds :
        LET task == tasks[t] IN
        /\ task.gets <= RETRY
        /\ task.failures <= task.gets
        /\ task.gets <= task.failures + 1
        /\ task.at = "get" => task.gets = task.failures
        /\ task.result = "downloaded"
              => task.at = "done" /\ task.gets = task.failures + 1
        /\ task.result = "failed"
              => task.at = "done" /\ task.failures = RETRY
        /\ task.failures = RETRY => task.result = "failed"

\* A call failed after RETRY GETs, and another was downloaded at its second.
C10_Witness ==
    /\ \E t \in TaskIds :
          tasks[t].result = "failed" /\ tasks[t].gets = RETRY
    /\ \E t \in TaskIds :
          tasks[t].result = "downloaded" /\ tasks[t].gets = 2


\* ------------------------------------------------------------------------
\* The crawl on sites whose listing pages fail (SpecFailing,
\* FairSpecFailing).

HrefSub2 == Rel(<<"t", "/">>)
Sub2Path == <<"/", "a", "/", "t", "/">>

\* What a sub-directory page may answer: a listing, an error page that
\* holds anchors of its own, or no answer at all (the request raises).
SubPages ==
    {Page(status, hrefs) : status \in {200, 404, 500},
                           hrefs \in SUBSET {HrefC, HrefRootAbs}}
    \cup {Page(0, {})}

\* Every site of three listing pages: the root page links to both
\* sub-directories, and each page answers or fails.
FailingSites ==
    {Site(RootUrl,
          [p \in {RootUrl.path, SubPath, Sub2Path} |->
              IF p = RootUrl.path
              THEN Page(top[1], top[2] \cup {HrefSub, HrefSub2})
              ELSE IF p = SubPath THEN sub ELSE sub2],
          NoBodies) :
        top \in {200, 500} \X SUBSET {HrefB},
        sub \in SubPages, sub2 \in SubPages}

InitFailing == site \in FailingSites /\ workers = 1 /\ Start0

SpecFailing == InitFailing /\ [][NextCrawl]_vars

\* The crawl loop runs on: collect_all_links is sequential code.
FairSpecFailing == SpecFailing /\ WF_vars(NextCrawl)

\* The number of GET requests made for the listing page at url: each call of
\* parse_directory_listing makes one (line 131).
DirectoryGets(url) ==
    Cardinality({i \in 1..Len(parse_calls) : parse_calls[i] = url})

\* The GET of the listing page did not give a listing.
ListingFailed(url) == PageAt(url).status # 200

\* C11: a directory page whose GET raised or answered a status other than
\* 200 is requested again: once its fetch is over, more than one GET was
\* made for it.
C11_DirectoryRetried ==
    \A u \in visited : ListingFailed(u) => DirectoryGets(u) > 1

\* What the claim expects of a listing: the links of a page that answered
\* 200, nothing of any other page.
Listed(d) ==
    IF ListingFailed(d) THEN {}
    ELSE KeptLinks(d, site.root, PageAt(d).hrefs)

RECURSIVE AnsweredClosure(_)
AnsweredClosure(S) ==
    LET more == S \cup UNION {{l \in Listed(d) : EndsWithSlash(l)} : d \in S}
    IN  IF more = S THEN S ELSE AnsweredClosure(more)

\* The directories reachable through the pages that answered, and the files
\* those pages list.
AnsweredDirs == AnsweredClosure({site.root})

AnsweredFiles ==
    UNION {{l \in Listed(d) : ~EndsWithSlash(l)} : d \in AnsweredDirs}

\* C12: the iteration of the crawl loop that fetches a failing page marks it
\* visited, adds no link and leaves the rest of the queue as it is; the
\* crawl then runs to its end, having fetched every queued URL, and returns
\* exactly the files listed on the pages that answered 200.
C12_FailedListingNotFatal ==
    /\ <>(pc # "crawl")
    /\ [][(/\ pc = "crawl"
           /\ to_visit # <<>>
           /\ Head(to_visit) \notin visited
           /\ ListingFailed(Head(to_visit)))
          => /\ visited' = visited \cup {Head(to_visit)}
             /\ to_visit' = Tail(to_visit)
             /\ file_links' = file_links
             /\ pc' = "crawl"]_vars
    /\ [](pc # "crawl" => /\ to_visit = <<>>
                          /\ visited = AnsweredDirs
                          /\ file_links = AnsweredFiles)

\* The crawl ended with files; a page that failed, holding anchors, was
\* fetched before another page.
C12_Witness ==
    /\ pc # "crawl"
    /\ file_links # {}
    /\ \E i \in 1..Len(parse_calls) :
          /\ i < Len(parse_calls)
          /\ ListingFailed(parse_calls[i])
          /\ PageAt(parse_calls[i]).hrefs # {}

\* ------------------------------------------------------------------------
\* More properties of the whole pipeline (Spec).

FinalPaths == {tasks[t].local_path : t \in TaskIds}

TempPaths == {tmp_path(tasks[t].local_path) : t \in TaskIds}

\* The temp files on disk: what a kill of the process leaves behind.
StrayTemps == (DOMAIN fs \cap TempPaths) \ FinalPaths

\* C13: in every state of the download phase (the process may be killed in
\* any of them) at most one temp file exists under the local root, and no
\* final path holds partial content.
C13_AtMostOneStray ==
    pc \in {"collect", "crashed"}
    => /\ Cardinality(StrayTemps) <= 1
       /\ \A p \in (DOMAIN fs \cap FinalPaths) \ TempPaths : Complete(fs[p])

Outcomes == {"downloaded", "skipped", "failed"}

\* The number of calls that returned res.
CountOf(res) == Cardinality({t \in TaskIds : tasks[t].result = res})

\* C14: when main has finished, there is one call per file URL of
\* file_links, each has returned one of the three outcomes, results_summary
\* counts each outcome as often as it was returned, and the three counts add
\* up to the number of file URLs.
C14_SummaryAccounts ==
    pc = "done"
    => /\ Len(tasks) = Cardinality(file_links)
       /\ {tasks[t].url : t \in TaskIds} = file_links
       /\ \A t \in TaskIds : tasks[t].result \in Outcomes
       /\ \A res \in Outcomes : results_summary[res] = CountOf(res)
       /\ results_summary.downloaded + results_summary.skipped
          + results_summary.failed = Cardinality(file_links)

\* main finished a second run in which one file was skipped and another
\* failed.
C14_Witness ==
    /\ pc = "done"
    /\ run = 2
    /\ results_summary.skipped = 1
    /\ results_summary.failed = 1

\* C15: a download_file call has started only after collect_all_links
\* returned (the queue is empty and the calls are those of the final
\* file_links), and at most `workers` calls are in progress at a time.
C15_BoundedConcurrency ==
    /\ Cardinality({t \in TaskIds : Running(t)}) <= workers
    /\ (\E t \in TaskIds : tasks[t].at # "queued")
       => /\ pc # "crawl"
          /\ to_visit = <<>>
          /\ {tasks[t].url : t \in TaskIds} = file_links

\* The pool is full and a submitted call waits for a worker.
C15_Witness ==
    /\ Cardinality({t \in TaskIds : Running(t)}) = workers
    /\ \E t \in TaskIds : tasks[t].at = "queued"

\* ------------------------------------------------------------------------
\* The reference scenario and the mapping to local paths (SpecReference).

HrefBTxt == Rel(<<"b", ".", "t", "x", "t">>)
HrefCTxt == Rel(<<"c", ".", "t", "x", "t">>)
HrefSubDir == Rel(<<"s", "u", "b", "/">>)
SubDirPath == <<"/", "a", "/", "s", "u", "b", "/">>

\* /a/ lists b.txt and sub/, /a/sub/ lists c.txt.
ReferenceSite ==
    Site(RootUrl,
         [p \in {RootUrl.path, SubDirPath} |->
             IF p = RootUrl.path THEN Page(200, {HrefBTxt, HrefSubDir})
             ELSE Page(200, {HrefCTxt})],
         NoBodies)

InitReference ==
    site \in {ReferenceSite} \cup CrawlSites /\ workers = 1 /\ Start0

SpecReference == InitReference /\ [][NextCrawl]_vars

\* http://x/a/b.txt and http://x/a/sub/c.txt, and where they are to go.
ExpectedFiles ==
    {Url("http", "x", <<"/", "a", "/", "b", ".", "t", "x", "t">>, <<>>, <<>>),
     Url("http", "x",
         <<"/", "a", "/", "s", "u", "b", "/", "c", ".", "t", "x", "t">>,
         <<>>, <<>>)}

ExpectedLocalPaths ==
    {LocalRoot \o <<"/", "b", ".", "t", "x", "t">>,
     LocalRoot \o <<"/", "s", "u", "b", "/", "c", ".", "t", "x", "t">>}

\* The part of a URL's path that follows the root URL's path.
RelativePart(u) == SubSeq(u.path, Len(site.root.path) + 1, Len(u.path))

\* C16: in the reference scenario collect_all_links returns exactly
\* http://x/a/b.txt and http://x/a/sub/c.txt and main submits them with the
\* local paths localRoot/b.txt and localRoot/sub/c.txt; on every site, the
\* local path of a file URL is the local root, a separator, and the
\* percent-decoded part of the URL's path that follows the root's path.
C16_ReferenceScenario ==
    /\ (site = ReferenceSite /\ pc # "crawl")
       => /\ file_links = ExpectedFiles
          /\ {tasks[t].url : t \in TaskIds} = ExpectedFiles
          /\ {tasks[t].local_path : t \in TaskIds} = ExpectedLocalPaths
          /\ \A t \in TaskIds :
                tasks[t].local_path
                = LocalRoot \o <<"/">> \o RelativePart(tasks[t].url)
    /\ \A u \in file_links :
          normalize_local_path(site.root, u, LocalRoot)
          = LocalRoot \o <<"/">> \o Unquote(RelativePart(u))

\* The reference scenario was crawled and its two downloads submitted.
C16_Witness ==
    /\ site = ReferenceSite
    /\ pc # "crawl"
    /\ Len(tasks) = 2
    /\ Len(parse_calls) = 2

\* ------------------------------------------------------------------------
\* The crawl on sites whose listings link to each other (SpecCyclic).

HrefSubAbs == Rel(SubPath)
HrefSub2Abs == Rel(Sub2Path)

\* Every site of three listing pages each of which links to any of the
\* three, itself included.
CyclicSites ==
    {Site(RootUrl,
          [p \in {RootUrl.path, SubPath, Sub2Path} |-> Page(200, hrefs[p])],
          NoBodies) :
        hrefs \in [{RootUrl.path, SubPath, Sub2Path} ->
                      SUBSET {HrefRootAbs, HrefSubAbs, HrefSub2Abs}]}

InitCyclic == site \in CyclicSites /\ workers = 1 /\ Start0

SpecCyclic == InitCyclic /\ [][NextCrawl]_vars

NoDuplicate(queue) ==
    \A i, j \in 1..Len(queue) : i # j => queue[i] # queue[j]

\* C17: to_visit never holds a URL twice nor a URL of visited, so the
\* dequeue guard never fires; a URL is appended only when it is neither
\* visited nor queued, and the URL taken from the queue is visited from then
\* on, so no URL is appended twice in a crawl.
C17_EnqueueOnce ==
    /\ [](/\ NoDuplicate(to_visit)
          /\ Range(to_visit) \cap visited = {}
          /\ (pc = "crawl" /\ to_visit # <<>>)
             => Head(to_visit) \notin visited)
    /\ [][/\ \A u \in Range(to_visit') \ Range(to_visit) :
                u \notin visited /\ u \notin visited'
          /\ visited \subseteq visited'
          /\ Range(to_visit) \ Range(to_visit') \subseteq visited'
          /\ Len(to_visit') >= Len(to_visit) - 1]_vars

\* The crawl of a site whose three pages each link to all three has ended,
\* every page fetched.
C17_Witness ==
    /\ pc # "crawl"
    /\ Len(parse_calls) = 3
    /\ \A p \in DOMAIN site.pages : Cardinality(site.pages[p].hrefs) = 3

\* ------------------------------------------------------------------------
\* The probe and the frame of download_file (Spec).

\* The probe gave no size: None, a status other than 200, or no
\* Content-Length.
ProbeUseless(head) == ~head.ok \/ head.status # 200 \/ head.length = {}

\* C18: try_head issues at most RETRY HEAD requests and returns None only
\* after RETRY of them; a call whose probe returned None, a status other
\* than 200 or no Content-Length leaves the skip decision for the transfer
\* loop, without a result and with the file system as it was, also when a
\* file exists at local_path.
C18_ProbeFailureNoSkip ==
    /\ [](\A t \in TaskIds :
             /\ tasks[t].heads <= RETRY
             /\ (tasks[t].at = "check" /\ ~tasks[t].head.ok)
                => tasks[t].heads = RETRY)
    /\ [][\A t \in TaskIds :
             (/\ tasks[t].at = "check"
              /\ ProbeUseless(tasks[t].head)
              /\ tasks'[t].at # "check")
             => /\ tasks'[t].at = "get"
                /\ tasks'[t].result = "none"
                /\ tasks'[t].attempt = 0
                /\ tasks'[t].updates = 0
                /\ fs' = fs]_vars

\* A call stands before its first GET although the whole file is at
\* local_path: its probe gave no size.
C18_Witness ==
    \E t \in TaskIds :
        /\ tasks[t].at = "get"
        /\ tasks[t].gets = 0
        /\ site = TreeSite
        /\ Exists(tasks[t].local_path)
        /\ fs[tasks[t].local_path] = Content(BodyOf(tasks[t].url))

\* C19: when a download_file call returns "skipped" or "failed", the file
\* at its local_path, existence and content, is what it was when the call
\* began.
C19_Frame ==
    [][\A t \in TaskIds :
          (/\ tasks[t].result = "none"
           /\ t \in DOMAIN tasks'
           /\ tasks'[t].result \in {"skipped", "failed"})
          => FileAt(fs', tasks[t].local_path) = tasks[t].before]_vars

=============================================================================
